---- MODULE Spec2Model ----
(***************************************************************************)
(* Soroban counter contracts of the StellarBootcamp repository:            *)
(*   - CrossCounterContract (soroban/cross-contract): a counter whose add  *)
(*     is gated by an external authorization registry (AuthContract) and   *)
(*     whose add revokes the caller's role when the sum passes 100;        *)
(*   - CounterContract (soroban/counter): the plain saturating counter.    *)
(*                                                                         *)
(* One environment holds one registered counter instance (`registered`),   *)
(* its instance storage (`storage`, a map from DataKey to value) and, for  *)
(* the access-controlled counter, the role tables of the registries.       *)
(* Every contract function is an operator that walks the function's        *)
(* statements in order and yields the outcome, the returned value, the     *)
(* storage and roles it leaves behind and the sequence of storage/registry *)
(* accesses it made; every action applies one function to the state and    *)
(* records the invocation in `last`.                                       *)
(*                                                                         *)
(* u64 is modelled with U64_BITS bits: TLC's integers are 32 bits wide,    *)
(* and all that the contracts rely on is THRESHOLD < MAX_U64.              *)
(***************************************************************************)
EXTENDS Integers, Sequences, FiniteSets, TLC

VARIABLES registered, storage, roles, revoked, last

vars == <<registered, storage, roles, revoked, last>>

\* ---------------------------------------------------------------- bounds
U64_BITS == 8

MAX_U64 == 2^U64_BITS - 1

THRESHOLD == 100

\* amounts the callers pass: zero, a mid value, the threshold itself, one
\* above it, and the largest u64
Amounts == {0, 30, THRESHOLD, THRESHOLD + 1, MAX_U64}

Principals == {"A", "B"}

Registries == {"R1", "R2"}

COUNTER == "COUNTER"

REMOVER == "REMOVER"

NO_ROLE == "NO_ROLE"

RoleTags == {COUNTER, REMOVER, NO_ROLE}

CrossCounterContract == "CrossCounterContract"

CounterContract == "CounterContract"

\* env.current_contract_address() of the access-controlled counter
SelfAddress == "CrossCounterContract"

DataKey_Count == "Count"

DataKey_AccessControl == "AccessControl"

\* placeholder for the return value of an invocation that aborted
NoReturn == 0 - 1

NoPrincipal == "-"

\* ------------------------------------------------- instance storage, u64
storage_has(st, key) == key \in DOMAIN st

storage_get_or(st, key, default) == IF key \in DOMAIN st THEN st[key] ELSE default

storage_set(st, key, val) ==
    [k \in (DOMAIN st) \cup {key} |-> IF k = key THEN val ELSE st[k]]

wrapping_add(a, b) == (a + b) % (2^U64_BITS)

saturating_add(a, b) == IF a + b > MAX_U64 THEN MAX_U64 ELSE a + b

saturating_sub(a, b) == IF a - b < 0 THEN 0 ELSE a - b

\* ------------------------------------------- authorization registry (R)
verify_auth(rl, registry, subject, required) == rl[registry][subject] = required

remove_role(rl, registry, subject, revokedBy) ==
    [rl EXCEPT ![registry][subject] = NO_ROLE]

set_role(rl, registry, tag, subject) == [rl EXCEPT ![registry][subject] = tag]

check_role(rl, registry, subject) == rl[registry][subject]

\* ------------------------------------------------ CrossCounterContract
Result(outcome, ret, st, rl, log) ==
    [outcome |-> outcome, ret |-> ret, storage |-> st, roles |-> rl, log |-> log]

\* variants of the contract functions, each with one statement changed
require_counter_without_verify_auth(st, rl, counter, authed) ==
    IF ~storage_has(st, DataKey_AccessControl)
    THEN [outcome |-> "config_error", log |-> <<"get:AccessControl">>]
    ELSE IF ~authed
    THEN [outcome |-> "authn_error", log |-> <<"get:AccessControl", "require_auth">>]
    ELSE [outcome |-> "ok", log |-> <<"get:AccessControl", "require_auth">>]

require_counter_without_require_auth(st, rl, counter, authed) ==
    IF ~storage_has(st, DataKey_AccessControl)
    THEN [outcome |-> "config_error", log |-> <<"get:AccessControl">>]
    ELSE IF ~verify_auth(rl, st[DataKey_AccessControl], counter, COUNTER)
    THEN [outcome |-> "authz_error", log |-> <<"get:AccessControl", "verify_auth">>]
    ELSE [outcome |-> "ok", log |-> <<"get:AccessControl", "verify_auth">>]

require_counter_uninitialized_passes(st, rl, counter, authed) ==
    IF ~storage_has(st, DataKey_AccessControl)
    THEN IF authed
         THEN [outcome |-> "ok", log |-> <<"get:AccessControl", "require_auth">>]
         ELSE [outcome |-> "authn_error",
               log |-> <<"get:AccessControl", "require_auth">>]
    ELSE LET controller == st[DataKey_AccessControl] IN
         IF ~verify_auth(rl, controller, counter, COUNTER)
         THEN [outcome |-> "authz_error",
               log |-> <<"get:AccessControl", "verify_auth">>]
         ELSE IF ~authed
         THEN [outcome |-> "authn_error",
               log |-> <<"get:AccessControl", "verify_auth", "require_auth">>]
         ELSE [outcome |-> "ok",
               log |-> <<"get:AccessControl", "verify_auth", "require_auth">>]

require_counter_auth_before_role(st, rl, counter, authed) ==
    IF ~storage_has(st, DataKey_AccessControl)
    THEN [outcome |-> "config_error", log |-> <<"get:AccessControl">>]
    ELSE IF ~authed
    THEN [outcome |-> "authn_error", log |-> <<"get:AccessControl", "require_auth">>]
    ELSE IF ~verify_auth(rl, st[DataKey_AccessControl], counter, COUNTER)
    THEN [outcome |-> "authz_error",
          log |-> <<"get:AccessControl", "require_auth", "verify_auth">>]
    ELSE [outcome |-> "ok",
          log |-> <<"get:AccessControl", "require_auth", "verify_auth">>]

require_counter_accepting_any_role(st, rl, counter, authed) ==
    IF ~storage_has(st, DataKey_AccessControl)
    THEN [outcome |-> "config_error", log |-> <<"get:AccessControl">>]
    ELSE IF verify_auth(rl, st[DataKey_AccessControl], counter, NO_ROLE)
    THEN [outcome |-> "authz_error", log |-> <<"get:AccessControl", "verify_auth">>]
    ELSE IF ~authed
    THEN [outcome |-> "authn_error",
          log |-> <<"get:AccessControl", "verify_auth", "require_auth">>]
    ELSE [outcome |-> "ok",
          log |-> <<"get:AccessControl", "verify_auth", "require_auth">>]

require_counter(st, rl, counter, authed) ==
    IF ~storage_has(st, DataKey_AccessControl)
    THEN [outcome |-> "config_error", log |-> <<"get:AccessControl">>]
    ELSE LET controller == st[DataKey_AccessControl] IN
         IF ~verify_auth(rl, controller, counter, COUNTER)
         THEN [outcome |-> "authz_error",
               log |-> <<"get:AccessControl", "verify_auth">>]
         ELSE IF ~authed
         THEN [outcome |-> "authn_error",
               log |-> <<"get:AccessControl", "verify_auth", "require_auth">>]
         ELSE [outcome |-> "ok",
               log |-> <<"get:AccessControl", "verify_auth", "require_auth">>]

remove_counter_role_of_everyone(st, rl, counter) ==
    IF ~storage_has(st, DataKey_AccessControl)
    THEN [outcome |-> "config_error", roles |-> rl, log |-> <<"get:AccessControl">>]
    ELSE [outcome |-> "ok",
          roles |-> [rl EXCEPT ![st[DataKey_AccessControl]] =
                                   [p \in Principals |-> NO_ROLE]],
          log |-> <<"get:AccessControl", "remove_role">>]

remove_counter_role(st, rl, counter) ==
    IF ~storage_has(st, DataKey_AccessControl)
    THEN [outcome |-> "config_error", roles |-> rl, log |-> <<"get:AccessControl">>]
    ELSE [outcome |-> "ok",
          roles |-> remove_role(rl, st[DataKey_AccessControl], counter, SelfAddress),
          log |-> <<"get:AccessControl", "remove_role">>]

count_storing_default(st, rl) ==
    Result("ok", storage_get_or(st, DataKey_Count, 0),
           storage_set(st, DataKey_Count, storage_get_or(st, DataKey_Count, 0)), rl,
           <<"get:Count", "set:Count">>)

count(st, rl) ==
    Result("ok", storage_get_or(st, DataKey_Count, 0), st, rl, <<"get:Count">>)

add_keeping_role(st, rl, counter, amount, authed) ==
    LET rc == require_counter(st, rl, counter, authed) IN
    IF rc.outcome # "ok" THEN Result(rc.outcome, NoReturn, st, rl, rc.log)
    ELSE LET cnt == storage_get_or(st, DataKey_Count, 0)
             log1 == rc.log \o <<"get:Count">>
         IN IF saturating_add(cnt, amount) > THRESHOLD
            THEN Result("ok", 0, storage_set(st, DataKey_Count, 0), rl,
                        log1 \o <<"set:Count">>)
            ELSE Result("ok", saturating_add(cnt, amount),
                        storage_set(st, DataKey_Count, saturating_add(cnt, amount)),
                        rl, log1 \o <<"set:Count">>)

add_threshold_inclusive(st, rl, counter, amount, authed) ==
    LET rc == require_counter(st, rl, counter, authed) IN
    IF rc.outcome # "ok" THEN Result(rc.outcome, NoReturn, st, rl, rc.log)
    ELSE LET cnt == storage_get_or(st, DataKey_Count, 0)
             log1 == rc.log \o <<"get:Count">>
         IN IF saturating_add(cnt, amount) >= THRESHOLD
            THEN LET rr == remove_counter_role(st, rl, counter) IN
                 IF rr.outcome # "ok"
                 THEN Result(rr.outcome, NoReturn, st, rl, log1 \o rr.log)
                 ELSE Result("ok", 0, storage_set(st, DataKey_Count, 0), rr.roles,
                             log1 \o rr.log \o <<"set:Count">>)
            ELSE Result("ok", saturating_add(cnt, amount),
                        storage_set(st, DataKey_Count, saturating_add(cnt, amount)),
                        rl, log1 \o <<"set:Count">>)

add_writing_before_checks(st, rl, counter, amount, authed) ==
    LET cnt == storage_get_or(st, DataKey_Count, 0)
        penalty == saturating_add(cnt, amount) > THRESHOLD
        new_count == IF penalty THEN 0 ELSE saturating_add(cnt, amount)
        st2 == storage_set(st, DataKey_Count, new_count)
        log1 == <<"get:Count", "set:Count">>
        rc == require_counter(st, rl, counter, authed)
    IN IF rc.outcome # "ok"
       THEN Result(rc.outcome, NoReturn, st2, rl, log1 \o rc.log)
       ELSE IF penalty
       THEN LET rr == remove_counter_role(st, rl, counter) IN
            Result(rr.outcome, IF rr.outcome = "ok" THEN 0 ELSE NoReturn, st2,
                   rr.roles, log1 \o rc.log \o rr.log)
       ELSE Result("ok", new_count, st2, rl, log1 \o rc.log)

add_wrapping_threshold(st, rl, counter, amount, authed) ==
    LET rc == require_counter(st, rl, counter, authed) IN
    IF rc.outcome # "ok" THEN Result(rc.outcome, NoReturn, st, rl, rc.log)
    ELSE LET cnt == storage_get_or(st, DataKey_Count, 0)
             log1 == rc.log \o <<"get:Count">>
         IN IF wrapping_add(cnt, amount) > THRESHOLD
            THEN LET rr == remove_counter_role(st, rl, counter) IN
                 IF rr.outcome # "ok"
                 THEN Result(rr.outcome, NoReturn, st, rl, log1 \o rr.log)
                 ELSE Result("ok", 0, storage_set(st, DataKey_Count, 0), rr.roles,
                             log1 \o rr.log \o <<"set:Count">>)
            ELSE Result("ok", saturating_add(cnt, amount),
                        storage_set(st, DataKey_Count, saturating_add(cnt, amount)),
                        rl, log1 \o <<"set:Count">>)

add_writing_before_revocation(st, rl, counter, amount, authed) ==
    LET rc == require_counter(st, rl, counter, authed) IN
    IF rc.outcome # "ok" THEN Result(rc.outcome, NoReturn, st, rl, rc.log)
    ELSE LET cnt == storage_get_or(st, DataKey_Count, 0)
             log1 == rc.log \o <<"get:Count">>
         IN IF saturating_add(cnt, amount) > THRESHOLD
            THEN LET st2 == storage_set(st, DataKey_Count, 0)
                     rr == remove_counter_role(st2, rl, counter)
                 IN IF rr.outcome # "ok"
                    THEN Result(rr.outcome, NoReturn, st2, rl,
                                log1 \o <<"set:Count">> \o rr.log)
                    ELSE Result("ok", 0, st2, rr.roles,
                                log1 \o <<"set:Count">> \o rr.log)
            ELSE Result("ok", saturating_add(cnt, amount),
                        storage_set(st, DataKey_Count, saturating_add(cnt, amount)),
                        rl, log1 \o <<"set:Count">>)

add_threshold_on_amount(st, rl, counter, amount, authed) ==
    LET rc == require_counter(st, rl, counter, authed) IN
    IF rc.outcome # "ok" THEN Result(rc.outcome, NoReturn, st, rl, rc.log)
    ELSE LET cnt == storage_get_or(st, DataKey_Count, 0)
             log1 == rc.log \o <<"get:Count">>
         IN IF amount > THRESHOLD
            THEN LET rr == remove_counter_role(st, rl, counter) IN
                 IF rr.outcome # "ok"
                 THEN Result(rr.outcome, NoReturn, st, rl, log1 \o rr.log)
                 ELSE Result("ok", 0, storage_set(st, DataKey_Count, 0), rr.roles,
                             log1 \o rr.log \o <<"set:Count">>)
            ELSE Result("ok", saturating_add(cnt, amount),
                        storage_set(st, DataKey_Count, saturating_add(cnt, amount)),
                        rl, log1 \o <<"set:Count">>)

add(st, rl, counter, amount, authed) ==
    LET rc == require_counter(st, rl, counter, authed) IN
    IF rc.outcome # "ok" THEN Result(rc.outcome, NoReturn, st, rl, rc.log)
    ELSE LET cnt == storage_get_or(st, DataKey_Count, 0)
             log1 == rc.log \o <<"get:Count">>
         IN IF saturating_add(cnt, amount) > THRESHOLD
            THEN LET rr == remove_counter_role(st, rl, counter) IN
                 IF rr.outcome # "ok"
                 THEN Result(rr.outcome, NoReturn, st, rl, log1 \o rr.log)
                 ELSE Result("ok", 0, storage_set(st, DataKey_Count, 0), rr.roles,
                             log1 \o rr.log \o <<"set:Count">>)
            ELSE Result("ok", saturating_add(cnt, amount),
                        storage_set(st, DataKey_Count, saturating_add(cnt, amount)),
                        rl, log1 \o <<"set:Count">>)

\* add when the registry's remove_role call fails: the client call panics
\* and the invocation aborts at that statement
add_remove_role_failing(st, rl, counter, amount, authed) ==
    LET rc == require_counter(st, rl, counter, authed) IN
    IF rc.outcome # "ok" THEN Result(rc.outcome, NoReturn, st, rl, rc.log)
    ELSE LET cnt == storage_get_or(st, DataKey_Count, 0)
             log1 == rc.log \o <<"get:Count">>
         IN IF saturating_add(cnt, amount) > THRESHOLD
            THEN Result("registry_error", NoReturn, st, rl,
                        log1 \o <<"get:AccessControl", "remove_role">>)
            ELSE Result("ok", saturating_add(cnt, amount),
                        storage_set(st, DataKey_Count, saturating_add(cnt, amount)),
                        rl, log1 \o <<"set:Count">>)

subtract_with_role_check(st, rl, counter, amount, authed) ==
    LET rc == require_counter(st, rl, counter, authed) IN
    IF rc.outcome # "ok" THEN Result(rc.outcome, NoReturn, st, rl, rc.log)
    ELSE LET cnt == storage_get_or(st, DataKey_Count, 0) IN
         Result("ok", saturating_sub(cnt, amount),
                storage_set(st, DataKey_Count, saturating_sub(cnt, amount)), rl,
                rc.log \o <<"get:Count", "set:Count">>)

subtract_writing_before_auth(st, rl, counter, amount, authed) ==
    LET cnt == storage_get_or(st, DataKey_Count, 0)
        st2 == storage_set(st, DataKey_Count, saturating_sub(cnt, amount))
    IN IF ~authed
       THEN Result("authn_error", NoReturn, st2, rl,
                   <<"get:Count", "set:Count", "require_auth">>)
       ELSE Result("ok", saturating_sub(cnt, amount), st2, rl,
                   <<"get:Count", "set:Count", "require_auth">>)

subtract_replacing_storage(st, rl, counter, amount, authed) ==
    IF ~authed THEN Result("authn_error", NoReturn, st, rl, <<"require_auth">>)
    ELSE LET cnt == storage_get_or(st, DataKey_Count, 0) IN
         Result("ok", saturating_sub(cnt, amount),
                storage_set([k \in {} |-> 0], DataKey_Count,
                            saturating_sub(cnt, amount)), rl,
                <<"require_auth", "get:Count", "set:Count">>)

subtract_without_require_auth(st, rl, counter, amount, authed) ==
    LET cnt == storage_get_or(st, DataKey_Count, 0) IN
    Result("ok", saturating_sub(cnt, amount),
           storage_set(st, DataKey_Count, saturating_sub(cnt, amount)), rl,
           <<"get:Count", "set:Count">>)

subtract(st, rl, counter, amount, authed) ==
    IF ~authed THEN Result("authn_error", NoReturn, st, rl, <<"require_auth">>)
    ELSE LET cnt == storage_get_or(st, DataKey_Count, 0) IN
         Result("ok", saturating_sub(cnt, amount),
                storage_set(st, DataKey_Count, saturating_sub(cnt, amount)), rl,
                <<"require_auth", "get:Count", "set:Count">>)

constructor(st, controller) == storage_set(st, DataKey_AccessControl, controller)

\* ----------------------------------------------------- CounterContract
Counter_count(st, rl) ==
    Result("ok", storage_get_or(st, DataKey_Count, 0), st, rl, <<"get:Count">>)

Counter_add_with_threshold(st, rl, amount) ==
    LET cnt == storage_get_or(st, DataKey_Count, 0)
        new_count == IF saturating_add(cnt, amount) > THRESHOLD
                     THEN 0 ELSE saturating_add(cnt, amount)
    IN Result("ok", new_count, storage_set(st, DataKey_Count, new_count), rl,
              <<"get:Count", "set:Count">>)

Counter_add(st, rl, amount) ==
    LET cnt == storage_get_or(st, DataKey_Count, 0)
        new_count == saturating_add(cnt, amount)
    IN Result("ok", new_count, storage_set(st, DataKey_Count, new_count), rl,
              <<"get:Count", "set:Count">>)

Counter_subtract(st, rl, amount) ==
    LET cnt == storage_get_or(st, DataKey_Count, 0)
        new_count == saturating_sub(cnt, amount)
    IN Result("ok", new_count, storage_set(st, DataKey_Count, new_count), rl,
              <<"get:Count", "set:Count">>)

\* ------------------------------------------------------------ the state
EmptyStorage == [k \in {} |-> 0]

NoRoles == [r \in Registries |-> [p \in Principals |-> NO_ROLE]]

Invocation(op, principal, amount, authed, res) ==
    [op |-> op, principal |-> principal, amount |-> amount, authed |-> authed,
     outcome |-> res.outcome, ret |-> res.ret, log |-> res.log,
     pre_storage |-> storage, pre_roles |-> roles]

Init ==
    /\ registered \in {CrossCounterContract, CounterContract}
    /\ storage = EmptyStorage
    /\ roles = NoRoles
    /\ revoked = {}
    /\ last = [op |-> "init", principal |-> NoPrincipal, amount |-> 0,
               authed |-> FALSE, outcome |-> "ok", ret |-> NoReturn, log |-> <<>>,
               pre_storage |-> EmptyStorage, pre_roles |-> NoRoles]

Apply(op, principal, amount, authed, res) ==
    /\ storage' = res.storage
    /\ roles' = res.roles
    /\ last' = Invocation(op, principal, amount, authed, res)

\* the host runs __constructor once, when the instance is deployed
Constructor(controller) ==
    /\ registered = CrossCounterContract
    /\ ~storage_has(storage, DataKey_AccessControl)
    /\ Apply("constructor", NoPrincipal, 0, FALSE,
             Result("ok", NoReturn, constructor(storage, controller), roles,
                    <<"set:AccessControl">>))
    /\ UNCHANGED <<registered, revoked>>

\* the registry's administrator assigns a role
SetRole(registry, tag, subject) ==
    /\ registered = CrossCounterContract
    /\ Apply("set_role", subject, 0, FALSE,
             Result("ok", NoReturn, storage, set_role(roles, registry, tag, subject),
                    <<>>))
    /\ revoked' = IF /\ tag = COUNTER
                     /\ storage_has(storage, DataKey_AccessControl)
                     /\ storage[DataKey_AccessControl] = registry
                  THEN revoked \ {subject} ELSE revoked
    /\ UNCHANGED registered

Count ==
    /\ registered = CrossCounterContract
    /\ Apply("count", NoPrincipal, 0, FALSE, count(storage, roles))
    /\ UNCHANGED <<registered, revoked>>

Add(counter, amount, authed) ==
    /\ registered = CrossCounterContract
    /\ LET res == add(storage, roles, counter, amount, authed) IN
       /\ Apply("add", counter, amount, authed, res)
       /\ revoked' = IF \E i \in 1..Len(res.log) : res.log[i] = "remove_role"
                     THEN revoked \cup {counter} ELSE revoked
    /\ UNCHANGED registered

Subtract(counter, amount, authed) ==
    /\ registered = CrossCounterContract
    /\ Apply("subtract", counter, amount, authed,
             subtract(storage, roles, counter, amount, authed))
    /\ UNCHANGED <<registered, revoked>>

CounterCount ==
    /\ registered = CounterContract
    /\ Apply("count", NoPrincipal, 0, FALSE, Counter_count(storage, roles))
    /\ UNCHANGED <<registered, revoked>>

CounterAdd(amount) ==
    /\ registered = CounterContract
    /\ Apply("add", NoPrincipal, amount, FALSE, Counter_add(storage, roles, amount))
    /\ UNCHANGED <<registered, revoked>>

CounterSubtract(amount) ==
    /\ registered = CounterContract
    /\ Apply("subtract", NoPrincipal, amount, FALSE,
             Counter_subtract(storage, roles, amount))
    /\ UNCHANGED <<registered, revoked>>

Next ==
    \/ \E c \in Registries : Constructor(c)
    \/ \E r \in Registries, t \in {COUNTER, REMOVER}, p \in Principals : SetRole(r, t, p)
    \/ Count
    \/ \E p \in Principals, a \in Amounts, s \in BOOLEAN : Add(p, a, s)
    \/ \E p \in Principals, a \in Amounts, s \in BOOLEAN : Subtract(p, a, s)
    \/ CounterCount
    \/ \E a \in Amounts : CounterAdd(a)
    \/ \E a \in Amounts : CounterSubtract(a)

Spec == Init /\ [][Next]_vars

\* an add during which the registry's remove_role call fails
AddRegistryFault(counter, amount, authed) ==
    /\ registered = CrossCounterContract
    /\ Apply("add", counter, amount, authed,
             add_remove_role_failing(storage, roles, counter, amount, authed))
    /\ UNCHANGED <<registered, revoked>>

NextRegistryFault ==
    \/ Next
    \/ \E p \in Principals, a \in Amounts, s \in BOOLEAN : AddRegistryFault(p, a, s)

SpecRegistryFault == Init /\ [][NextRegistryFault]_vars

\* ------------------------------------------------------------- helpers
IsCross == registered = CrossCounterContract

Constructed(st) == storage_has(st, DataKey_AccessControl)

StoredCount(st) == storage_get_or(st, DataKey_Count, 0)

Logged(ev) == \E i \in 1..Len(last.log) : last.log[i] = ev

TypeOK ==
    /\ registered \in {CrossCounterContract, CounterContract}
    /\ DOMAIN storage \subseteq {DataKey_Count, DataKey_AccessControl}
    /\ roles \in [Registries -> [Principals -> RoleTags]]
    /\ revoked \subseteq Principals

\* the invocation recorded in `last`, seen from the state it started in
PreCount == StoredCount(last.pre_storage)

PreConstructed == Constructed(last.pre_storage)

PreController == last.pre_storage[DataKey_AccessControl]

PreRole == check_role(last.pre_roles, PreController, last.principal)

PostRole == check_role(roles, PreController, last.principal)

StateKept == storage = last.pre_storage /\ roles = last.pre_roles

\* an add whose principal held COUNTER at the registry and signed the call
AddPassed ==
    /\ IsCross /\ last.op = "add"
    /\ PreConstructed /\ PreRole = COUNTER /\ last.authed

\* ============================================================== claims

\* C1: threshold penalty. Every add(principal, amount) with
\* count + amount > 100 that passes the role check and the self-authentication
\* returns 0, leaves the stored count at 0, and leaves the principal's role at
\* the registry cleared (check_role(principal) = NO_ROLE).
C1_ThresholdPenalty ==
    (AddPassed /\ PreCount + last.amount > THRESHOLD)
        => /\ last.outcome = "ok"
           /\ last.ret = 0
           /\ storage_has(storage, DataKey_Count) /\ storage[DataKey_Count] = 0
           /\ PostRole = NO_ROLE

C1_Witness ==
    /\ AddPassed /\ PreCount > 0 /\ PreCount + last.amount > THRESHOLD
    /\ last.ret = 0 /\ StoredCount(storage) = 0 /\ PostRole = NO_ROLE

\* C2: revocation is lasting. Once a principal's add has triggered the
\* penalty, and for as long as the registry has not granted the principal
\* COUNTER again (the principal is in `revoked`), every add by that principal
\* ends in an authorization error and changes neither storage nor roles.
C2_RevocationLasting ==
    [][\A p \in Principals :
          (p \in revoked /\ IsCross /\ last'.op = "add" /\ last'.principal = p)
              => /\ last'.outcome = "authz_error"
                 /\ storage' = storage /\ roles' = roles]_vars

C2_Witness ==
    /\ IsCross /\ last.op = "add" /\ last.principal \in revoked
    /\ last.authed /\ last.amount > 0
    /\ last.outcome = "authz_error" /\ StateKept

\* C3: saturation bounds. In both counters the stored count stays within
\* 0..MAX_U64 after every add and subtract; an add never lowers the count
\* except by the penalty reset and a subtract never raises it (no wrap-around);
\* and a call is rejected only for the configuration, role or
\* self-authentication reasons, never for the size of its amount.
C3_SaturationBounds ==
    /\ StoredCount(storage) >= 0 /\ StoredCount(storage) <= MAX_U64
    /\ (last.op = "add" /\ last.outcome = "ok")
          => \/ StoredCount(storage) >= PreCount
             \/ IsCross /\ Logged("remove_role") /\ StoredCount(storage) = 0
    /\ (last.op = "subtract" /\ last.outcome = "ok")
          => StoredCount(storage) <= PreCount
    /\ (last.op \in {"add", "subtract"} /\ ~IsCross) => last.outcome = "ok"
    /\ (last.op = "add" /\ IsCross)
          => (last.outcome = "ok" <=> AddPassed)
    /\ (last.op = "subtract" /\ IsCross)
          => (last.outcome = "ok" <=> last.authed)

C3_Witness ==
    /\ ~IsCross /\ last.op = "add" /\ PreCount > 0 /\ last.amount > 0
    /\ PreCount + last.amount > MAX_U64
    /\ last.outcome = "ok" /\ StoredCount(storage) = MAX_U64

\* C4: add is gated by both checks. An add changes the count or a role only
\* if the registry reported the principal's role as COUNTER and the principal
\* self-authenticated; a principal with NO_ROLE or any other role gets an
\* authorization error.
C4_AddGated ==
    (IsCross /\ last.op = "add")
        => /\ ~StateKept => (PreConstructed /\ PreRole = COUNTER /\ last.authed)
           /\ (PreConstructed /\ PreRole # COUNTER)
                 => (last.outcome = "authz_error" /\ StateKept)
           /\ (PreConstructed /\ PreRole = COUNTER /\ ~last.authed)
                 => (last.outcome = "authn_error" /\ StateKept)

C4_Witness ==
    /\ IsCross /\ last.op = "add" /\ PreConstructed
    /\ PreRole = REMOVER /\ last.authed
    /\ last.outcome = "authz_error" /\ StateKept

\* C5: subtract bypass. subtract never reads the registry reference and never
\* calls the registry; a self-authenticated subtract succeeds for every
\* principal, whatever its role, and sets the count to max(count - amount, 0).
C5_SubtractBypass ==
    (IsCross /\ last.op = "subtract")
        => /\ ~Logged("get:AccessControl")
           /\ ~Logged("verify_auth") /\ ~Logged("remove_role")
           /\ last.authed
                 => /\ last.outcome = "ok"
                    /\ storage_has(storage, DataKey_Count)
                    /\ storage[DataKey_Count] =
                          (IF PreCount - last.amount > 0
                           THEN PreCount - last.amount ELSE 0)
                    /\ last.ret = storage[DataKey_Count]
                    /\ roles = last.pre_roles

C5_Witness ==
    /\ IsCross /\ last.op = "subtract" /\ last.authed
    /\ last.principal \in revoked /\ PreConstructed /\ PreRole = NO_ROLE
    /\ PreCount > last.amount /\ last.amount > 0
    /\ last.outcome = "ok" /\ StoredCount(storage) = PreCount - last.amount

\* C6: uninitialized guard. Before the constructor has stored the registry
\* reference, every add fails with the configuration error and leaves the
\* state unchanged, count() returns 0, and a self-authenticated subtract
\* succeeds and returns 0.
C6_UninitializedGuard ==
    (IsCross /\ ~PreConstructed)
        => /\ last.op = "add" => (last.outcome = "config_error" /\ StateKept)
           /\ last.op = "count" => (last.outcome = "ok" /\ last.ret = 0)
           /\ (last.op = "subtract" /\ last.authed)
                 => (last.outcome = "ok" /\ last.ret = 0)

C6_Witness ==
    /\ IsCross /\ ~PreConstructed /\ last.op = "add"
    /\ last.authed /\ last.amount > 0
    /\ storage_has(last.pre_storage, DataKey_Count)
    /\ last.outcome = "config_error" /\ StateKept

\* C7: no partial failure. Whenever an add or subtract of the
\* access-controlled counter aborts, the stored count, the registry reference
\* and every principal's role are the same after the call as before it.
C7_NoPartialFailure ==
    (IsCross /\ last.op \in {"add", "subtract"} /\ last.outcome # "ok")
        => StateKept

C7_Witness ==
    /\ IsCross /\ last.op = "subtract" /\ last.outcome = "authn_error"
    /\ PreCount > 0 /\ last.amount > 0 /\ StateKept

\* C8: add below the threshold. Every authorized, self-authenticated add
\* with count + amount <= 100 returns count + amount, stores that value so
\* that a following count() returns it, and leaves all roles, in particular
\* the principal's COUNTER role, in place.
C8_AddBelowThreshold ==
    (AddPassed /\ PreCount + last.amount <= THRESHOLD)
        => /\ last.outcome = "ok"
           /\ last.ret = PreCount + last.amount
           /\ count(storage, roles).ret = last.ret
           /\ PostRole = COUNTER
           /\ roles = last.pre_roles

C8_Witness ==
    /\ AddPassed /\ PreCount > 0 /\ last.amount > 0
    /\ PreCount + last.amount = THRESHOLD
    /\ last.ret = THRESHOLD /\ StoredCount(storage) = THRESHOLD

\* C9: the registry reference is set once. No count, add or subtract call,
\* successful or aborted, changes the stored registry address once the
\* constructor has set it.
C9_RegistryImmutable ==
    [][Constructed(storage)
          => /\ Constructed(storage')
             /\ storage'[DataKey_AccessControl] = storage[DataKey_AccessControl]]_vars

C9_Witness ==
    /\ IsCross /\ last.op = "subtract" /\ last.outcome = "ok"
    /\ PreConstructed /\ Constructed(storage)
    /\ storage[DataKey_AccessControl] = PreController
    /\ StoredCount(storage) # PreCount

\* C10: count() is a pure read. With or without construction it returns
\* the stored count, 0 if the count was never written, and leaves the count,
\* the registry reference and all roles unchanged.
C10_CountPureRead ==
    (IsCross /\ last.op = "count")
        => /\ last.outcome = "ok"
           /\ last.ret = (IF storage_has(last.pre_storage, DataKey_Count)
                          THEN last.pre_storage[DataKey_Count] ELSE 0)
           /\ StateKept

C10_Witness ==
    /\ IsCross /\ last.op = "count" /\ ~PreConstructed
    /\ ~storage_has(storage, DataKey_Count) /\ last.ret = 0

\* C11: baseline counter. From count = 0 and for every sequence of calls,
\* add(amount) returns and stores min(count + amount, MAX_U64),
\* subtract(amount) returns and stores max(count - amount, 0), count() returns
\* the stored value and stores nothing; no call is rejected and no threshold
\* applies: a sum above 100 is stored as it is and never reset to 0.
C11_BaselineCounter ==
    ~IsCross
        => /\ last.outcome = "ok"
           /\ roles = last.pre_roles
           /\ last.op = "add"
                 => /\ last.ret = (IF PreCount + last.amount > MAX_U64
                                   THEN MAX_U64 ELSE PreCount + last.amount)
                    /\ storage_has(storage, DataKey_Count)
                    /\ storage[DataKey_Count] = last.ret
           /\ last.op = "subtract"
                 => /\ last.ret = (IF PreCount > last.amount
                                   THEN PreCount - last.amount ELSE 0)
                    /\ storage_has(storage, DataKey_Count)
                    /\ storage[DataKey_Count] = last.ret
           /\ last.op = "count"
                 => /\ last.ret = PreCount
                    /\ storage = last.pre_storage

C11_Witness ==
    /\ ~IsCross /\ last.op = "add" /\ last.outcome = "ok"
    /\ PreCount > 0 /\ PreCount <= THRESHOLD
    /\ PreCount + last.amount > THRESHOLD /\ PreCount + last.amount < MAX_U64
    /\ last.ret = PreCount + last.amount
    /\ StoredCount(storage) = PreCount + last.amount

\* position of the first occurrence of an access in the recorded invocation,
\* 0 if it was not made
FirstIndex(ev) ==
    IF Logged(ev)
    THEN CHOOSE i \in 1..Len(last.log) :
            /\ last.log[i] = ev
            /\ \A j \in 1..(i - 1) : last.log[j] # ev
    ELSE 0

RegistryCalls == {"verify_auth", "remove_role"}

\* the invocation read the configuration, then called the registry, and
\* made every registry call before it wrote the count
ConfigThenRegistryThenWrite ==
    /\ Len(last.log) >= 2
    /\ last.log[1] = "get:AccessControl"
    /\ last.log[2] \in RegistryCalls
    /\ \A i \in 1..Len(last.log) :
          last.log[i] \in RegistryCalls => i < FirstIndex("set:Count")

\* C12 as stated: every mutating call, add and subtract alike, first reads
\* the Access-Control Configuration, then calls into the registry, and only
\* then writes Counter State.
C12_Original ==
    (IsCross /\ last.op \in {"add", "subtract"} /\ Logged("set:Count"))
        => ConfigThenRegistryThenWrite

\* C12 amended: every add first reads the Access-Control Configuration, then
\* calls into the registry, and only then writes Counter State, and an add
\* that aborts writes nothing; subtract writes the count without reading the
\* configuration and without calling the registry.
C12_AddConsultsRegistryFirst ==
    /\ (IsCross /\ last.op = "add")
          => /\ last.log[1] = "get:AccessControl"
             /\ Logged("set:Count") => ConfigThenRegistryThenWrite
             /\ Logged("set:Count") <=> last.outcome = "ok"
    /\ (IsCross /\ last.op = "subtract")
          => \A i \in 1..Len(last.log) :
                last.log[i] \notin RegistryCalls \cup {"get:AccessControl"}

C12_Witness ==
    /\ IsCross /\ last.op = "add" /\ last.outcome = "ok"
    /\ Logged("remove_role") /\ ConfigThenRegistryThenWrite
    /\ FirstIndex("verify_auth") = 2
    /\ FirstIndex("remove_role") < FirstIndex("set:Count")

\* C13: the threshold check and saturation. For every count and amount
\* whose unbounded sum exceeds MAX_U64 an authorized add takes the penalty
\* (role revoked, count 0, return 0) and does not store MAX_U64; and the
\* penalty decision on the unbounded sum agrees with the one the code makes on
\* the saturated sum, for every count and amount met in either counter.
C13_ThresholdOnTentativeSum ==
    /\ (PreCount + last.amount > THRESHOLD)
          <=> (saturating_add(PreCount, last.amount) > THRESHOLD)
    /\ AddPassed
          => /\ Logged("remove_role") <=> (PreCount + last.amount > THRESHOLD)
             /\ (PreCount + last.amount > MAX_U64)
                   => /\ last.outcome = "ok" /\ last.ret = 0
                      /\ storage_has(storage, DataKey_Count)
                      /\ storage[DataKey_Count] = 0
                      /\ storage[DataKey_Count] # MAX_U64
                      /\ PostRole = NO_ROLE

C13_Witness ==
    /\ AddPassed /\ PreCount > 0 /\ last.amount = MAX_U64
    /\ PreCount + last.amount > MAX_U64
    /\ Logged("remove_role") /\ last.ret = 0 /\ StoredCount(storage) = 0
    /\ PostRole = NO_ROLE

\* C14: the penalty is all-or-nothing with the registry call. In a penalty
\* add remove_role is called before the count is written; if that call fails
\* the add aborts with the count and all roles unchanged; no add leaves the
\* principal's role revoked with the count at its pre-call non-zero value,
\* nor the count reset by the penalty with the principal still at COUNTER.
C14_PenaltyAllOrNothing ==
    (IsCross /\ last.op = "add")
        => /\ Logged("remove_role")
                 => /\ PreCount + last.amount > THRESHOLD
                    /\ Logged("set:Count")
                          => FirstIndex("remove_role") < FirstIndex("set:Count")
           /\ last.outcome = "registry_error"
                 => /\ Logged("remove_role") /\ ~Logged("set:Count")
                    /\ StateKept
           /\ (PreConstructed /\ PostRole # PreRole)
                 => /\ last.outcome = "ok"
                    /\ storage_has(storage, DataKey_Count)
                    /\ storage[DataKey_Count] = 0
           /\ (last.outcome = "ok" /\ PreCount + last.amount > THRESHOLD)
                 => /\ StoredCount(storage) = 0
                    /\ PostRole = NO_ROLE

C14_Witness ==
    /\ IsCross /\ last.op = "add" /\ last.outcome = "registry_error"
    /\ PreConstructed /\ PreRole = COUNTER /\ last.authed
    /\ PreCount > 0 /\ StoredCount(storage) = PreCount
    /\ PostRole = COUNTER /\ StateKept

\* C15: order of the checks in add. The configuration lookup comes first,
\* the registry role check second and the principal's self-authentication
\* third: an add before construction reports the configuration error whatever
\* the rest, and an add by a principal that neither holds COUNTER nor
\* self-authenticated reports the authorization error, not the
\* authentication error.
C15_CheckOrder ==
    (IsCross /\ last.op = "add")
        => /\ last.log[1] = "get:AccessControl"
           /\ ~PreConstructed
                 => (last.outcome = "config_error" /\ Len(last.log) = 1)
           /\ PreConstructed
                 => /\ last.log[2] = "verify_auth"
                    /\ PreRole # COUNTER
                          => (last.outcome = "authz_error" /\ Len(last.log) = 2)
                    /\ PreRole = COUNTER
                          => /\ last.log[3] = "require_auth"
                             /\ ~last.authed
                                   => /\ last.outcome = "authn_error"
                                      /\ Len(last.log) = 3

C15_Witness ==
    /\ IsCross /\ last.op = "add" /\ PreConstructed
    /\ PreRole # COUNTER /\ ~last.authed
    /\ last.outcome = "authz_error" /\ ~Logged("require_auth")

\* C16: subtract requires self-authentication and nothing else. A subtract
\* the principal did not self-authenticate aborts with an authentication
\* error before anything is read or written and leaves the count unchanged; a
\* self-authenticated one returns max(count - amount, 0) and a following
\* count() returns that same value.
C16_SubtractSelfAuthOnly ==
    (IsCross /\ last.op = "subtract")
        => /\ last.log[1] = "require_auth"
           /\ ~last.authed
                 => /\ last.outcome = "authn_error"
                    /\ Len(last.log) = 1
                    /\ StoredCount(storage) = PreCount
                    /\ storage = last.pre_storage
           /\ last.authed
                 => /\ last.outcome = "ok"
                    /\ last.ret = (IF PreCount > last.amount
                                   THEN PreCount - last.amount ELSE 0)
                    /\ count(storage, roles).ret = last.ret

C16_Witness ==
    /\ IsCross /\ last.op = "subtract" /\ ~last.authed
    /\ PreConstructed /\ PreRole = COUNTER
    /\ PreCount >= last.amount /\ last.amount > 0
    /\ last.outcome = "authn_error" /\ StoredCount(storage) = PreCount

\* C17: in every reachable state of the access-controlled counter the stored
\* count is at most 100, so MAX_U64 is never the stored value.
C17_CountAtMostThreshold ==
    IsCross => (StoredCount(storage) <= THRESHOLD /\ StoredCount(storage) # MAX_U64)

C17_Witness ==
    /\ IsCross /\ StoredCount(storage) = THRESHOLD
    /\ last.op = "add" /\ last.outcome = "ok" /\ PreCount > 0

\* C18: frame property on roles. The counter never grants a role, and the
\* only role it clears is that of the principal whose add took the penalty,
\* at the configured registry; every other principal's role is unchanged, so
\* another COUNTER holder still passes add's checks afterwards; count,
\* subtract, aborted add and non-penalty add leave all roles unchanged.
C18_RolesFrame ==
    (IsCross /\ last.op \in {"count", "add", "subtract"})
        => /\ \A r \in Registries, p \in Principals :
                 roles[r][p] # last.pre_roles[r][p]
                    => /\ last.op = "add" /\ last.outcome = "ok"
                       /\ PreCount + last.amount > THRESHOLD
                       /\ r = PreController /\ p = last.principal
                       /\ last.pre_roles[r][p] = COUNTER
                       /\ roles[r][p] = NO_ROLE
           /\ (last.op = "add" /\ PreConstructed)
                 => \A q \in Principals \ {last.principal} :
                       check_role(last.pre_roles, PreController, q) = COUNTER
                          => require_counter(storage, roles, q, TRUE).outcome = "ok"

C18_Witness ==
    /\ IsCross /\ last.op = "add" /\ last.outcome = "ok" /\ PreConstructed
    /\ PreRole = COUNTER /\ PostRole = NO_ROLE
    /\ \E q \in Principals \ {last.principal} :
          /\ check_role(last.pre_roles, PreController, q) = COUNTER
          /\ check_role(roles, PreController, q) = COUNTER

\* C19: the count of the access-controlled counter increases only through
\* a successful add by a principal that holds COUNTER at the configured
\* registry when it calls; subtract never increases it, and while no
\* principal holds COUNTER there no step increases the count.
C19_IncreaseOnlyByCounterHolder ==
    [][IsCross =>
          /\ StoredCount(storage') > StoredCount(storage)
                => /\ last'.op = "add" /\ last'.outcome = "ok"
                   /\ Constructed(storage)
                   /\ check_role(roles, storage[DataKey_AccessControl],
                                 last'.principal) = COUNTER
          /\ (\/ ~Constructed(storage)
              \/ \A p \in Principals :
                    check_role(roles, storage[DataKey_AccessControl], p) # COUNTER)
                => StoredCount(storage') <= StoredCount(storage)]_vars

C19_Witness ==
    /\ IsCross /\ last.op = "add" /\ last.outcome = "ok"
    /\ PreConstructed /\ PreRole = COUNTER
    /\ PreCount > 0 /\ StoredCount(storage) > PreCount

====
